---- MODULE Spec2Model ----
(***************************************************************************)
(* Sourcepan: the repository state reconciliation engine behind the Gtk    *)
(* views (history walker, diff engine, index mutator, change watcher and   *)
(* the presenters that coordinate them), as a state machine.               *)
(*                                                                         *)
(* The repository (object database, refs, index, working directory) is     *)
(* the environment; the presenters' fields and what the views display are  *)
(* the program state.  Every Gtk callback runs to completion on the main   *)
(* thread, so one callback is one action.  A Rust panic (unwrap, expect,   *)
(* slice index out of range) ends the process: running becomes FALSE and   *)
(* no further callback runs.                                               *)
(***************************************************************************)
EXTENDS Integers, Sequences, FiniteSets, TLC

(***************************************************************************)
(* Bounds of the model.                                                    *)
(***************************************************************************)
MaxBlob == 2        \* blob ids 1..MaxBlob
MaxCommits == 3     \* commits in the object database
MaxQueue == 1       \* debounced events waiting in the channel
MaxRow == 1         \* row indices 0..MaxRow offered to the toggle handlers

ZeroOid == 0        \* git2::Oid::zero(): the id of an absent side of a delta

VARIABLES
    odb,        \* object database: odb[c] = [parents, time, tree] for commit c
    heads,      \* refs/heads/*: branch name -> commit id, ZeroOid if no such branch
    remotes,    \* refs/remotes/*: name -> commit id, ZeroOid if no such ref
    HEAD,       \* the local branch HEAD points at
    index,      \* the index file: path -> blob id, ZeroOid if no entry
    workdir,    \* the working directory: path -> blob id, ZeroOid if no file
    branch,     \* BranchPresenter.branch: the selected branch
    commits,    \* HistoryPresenter.commits: the last computed history
    cursor,     \* the history tree view's cursor: <<>> or <<row>>
    deltas,     \* <<staged, unstaged>>: the lists published to FileStatusView
    panes,      \* what FileStatusView shows: "none", "status" or "commit"
    rx,         \* the channel from the watcher to the poll callback
    watch,      \* the OS watch: "watching", "warned" (it failed, the view said
                \* so) or "none" (no watcher was created)
    running,    \* FALSE once a callback has panicked
    toggled,    \* <<>>, or <<t>> when the toggle callback t produced this state
    opened,     \* the directory MainPresenter.repo is open on, NoRepo before
                \* there is a main window
    disk,       \* the repositories of the other directories: directory -> content
    branches,   \* MainWindow.branches: the names the sidebar lists
    config,     \* the repository directory Config persists, NoRepo if none
    title,      \* the title of the main window
    error,      \* what the last error dialog said, <<>> before the first
    watched,    \* the directory the watcher watches, NoRepo if none
    alive,      \* the HistoryPresenter exists (the poll closure can upgrade it)
    connected,  \* a Sender of the watcher channel exists
    timer,      \* the poll callback is scheduled (it returned Continue(true))
    late,       \* ticks that found the channel empty after the presenter
                \* was dropped and were rescheduled, up to MaxLate
    summ,       \* <<>>, or <<[message, summary]>>: the last summary computed
    chunk,      \* <<>>, or <<c>>: the hunk view whose lines are selected
    diffview    \* DiffView: the file views shown

vars == <<odb, heads, remotes, HEAD, index, workdir, branch, commits, cursor,
          deltas, panes, rx, watch, running, toggled, opened, disk, branches,
          config, title, error, watched, alive, connected, timer, late,
          summ, chunk, diffview>>

repoVars == <<odb, heads, remotes, HEAD, index, workdir>>

windowVars == <<opened, disk, branches, config, title, error, watched>>

presenterVars == <<branch, commits, cursor, deltas, panes, running, rx, watch>>

lifeVars == <<alive, connected, timer, late>>

viewVars == <<summ, chunk, diffview>>

(***************************************************************************)
(* Names.  A branch name and a filesystem path are sequences of            *)
(* components, which is how std::path::Path compares them.                 *)
(***************************************************************************)
Master == <<"master">>
Dev == <<"dev">>
OriginMaster == <<"origin", "master">>

LocalNames == <<Dev, Master>>          \* in reference-name order
RemoteNames == <<OriginMaster>>
LocalSet == {LocalNames[i] : i \in 1..Len(LocalNames)}
RemoteSet == {RemoteNames[i] : i \in 1..Len(RemoteNames)}

PathOrder == <<"a.txt", "b.txt", "tmp.log">>   \* in git's path order
Paths == {PathOrder[i] : i \in 1..Len(PathOrder)}
IgnoredPaths == {"tmp.log"}                \* matched by .gitignore
TrackedPaths == Paths \ IgnoredPaths

Blobs == 1..MaxBlob
BlobSize(b) == (b \div 2) + 1            \* file size of the content with id b

Range(s) == {s[i] : i \in 1..Len(s)}

EmptyTree == [p \in Paths |-> ZeroOid]

Repo == [odb |-> odb, heads |-> heads, remotes |-> remotes, HEAD |-> HEAD,
         index |-> index, workdir |-> workdir]

HeadCommit(R) == R.heads[R.HEAD]
HeadTree(R) == R.odb[HeadCommit(R)].tree

(***************************************************************************)
(* Diff engine.  A delta is one file of a git2::Diff: its status, the path *)
(* of its new side, the content of both sides, and id, the value           *)
(* new_file().id() returns.  libgit2 leaves that id zero when it did not   *)
(* hash the working-directory file: for a deleted side, for an untracked   *)
(* file, and for a modified file whose size alone showed the change.       *)
(***************************************************************************)
Delta(st, p, o, n, nid) ==
    [status |-> st, path |-> p, old_path |-> p, old_blob |-> o, blob |-> n,
     id |-> nid]

\* diff_tree_to_index / diff_tree_to_tree, one path: at most one delta
TreeDelta(T, I, p) ==
    LET o == T[p]
        n == I[p]
    IN  IF o = n THEN <<>>
        ELSE IF o = ZeroOid THEN <<Delta("Added", p, o, n, n)>>
        ELSE IF n = ZeroOid THEN <<Delta("Deleted", p, o, n, ZeroOid)>>
        ELSE <<Delta("Modified", p, o, n, n)>>

\* a diff without include_untracked: files that are not in the index are
\* left out
WorkdirDeltaTrackedOnly(I, W, p, withIgnored) ==
    LET o == I[p]
        n == W[p]
    IN  IF o = n \/ o = ZeroOid THEN <<>>
        ELSE IF n = ZeroOid THEN <<Delta("Deleted", p, o, n, ZeroOid)>>
        ELSE <<Delta("Modified", p, o, n,
                     IF BlobSize(o) # BlobSize(n) THEN ZeroOid ELSE n)>>

\* the index-to-workdir half of a diff, one path; withIgnored is
\* GIT_DIFF_INCLUDE_IGNORED, untracked files are always included
WorkdirDelta(I, W, p, withIgnored) ==
    LET o == I[p]
        n == W[p]
    IN  IF o = n THEN <<>>
        ELSE IF o = ZeroOid
             THEN IF p \in IgnoredPaths
                  THEN (IF withIgnored
                        THEN <<Delta("Ignored", p, o, n, ZeroOid)>> ELSE <<>>)
                  ELSE <<Delta("Untracked", p, o, n, ZeroOid)>>
        ELSE IF n = ZeroOid THEN <<Delta("Deleted", p, o, n, ZeroOid)>>
        ELSE <<Delta("Modified", p, o, n,
                     IF BlobSize(o) # BlobSize(n) THEN ZeroOid ELSE n)>>

\* libgit2's merge of the two halves of diff_tree_to_workdir_with_index
\* (git_diff__merge_like_cgit): a is tree-to-index, b is index-to-workdir
MergeLikeCgit(a, b) ==
    IF a = <<>> THEN b
    ELSE IF b = <<>> THEN a
    ELSE IF a[1].status = "Deleted" THEN a
    ELSE IF b[1].status = "Deleted"
         THEN IF a[1].status = "Added" THEN <<>>
              ELSE <<[b[1] EXCEPT !.old_blob = a[1].old_blob]>>
    ELSE <<[b[1] EXCEPT !.status = a[1].status, !.old_blob = a[1].old_blob]>>

RECURSIVE Flatten(_)
Flatten(ss) == IF ss = <<>> THEN <<>> ELSE Head(ss) \o Flatten(Tail(ss))

\* a diff lists its deltas in path order
DiffTreeToTree(T1, T2) ==
    Flatten([i \in 1..Len(PathOrder) |-> TreeDelta(T1, T2, PathOrder[i])])

DiffTreeToIndex(T, I) == DiffTreeToTree(T, I)

DiffTreeToWorkdirWithIndex(T, I, W) ==
    Flatten([i \in 1..Len(PathOrder) |->
                MergeLikeCgit(TreeDelta(T, I, PathOrder[i]),
                              WorkdirDelta(I, W, PathOrder[i], FALSE))])

SetMin(S) == CHOOSE x \in S : \A y \in S : x <= y

\* Diff::find_similar(None): rename detection only; an added file whose
\* content is that of a deleted file is its rename (similarity is modelled
\* as equality of content)
RECURSIVE RenamePairs(_, _, _)
RenamePairs(ds, i, pairs) ==
    IF i > Len(ds) THEN pairs
    ELSE LET taken == {q[2] : q \in pairs}
             cand == {s \in 1..Len(ds) :
                         /\ ds[i].status = "Added"
                         /\ ds[s].status = "Deleted"
                         /\ s \notin taken
                         /\ ds[s].old_blob = ds[i].blob}
         IN  IF cand = {} THEN RenamePairs(ds, i + 1, pairs)
             ELSE RenamePairs(ds, i + 1, pairs \cup {<<i, SetMin(cand)>>})

RECURSIVE ApplyRenames(_, _, _)
ApplyRenames(ds, i, pairs) ==
    IF i > Len(ds) THEN <<>>
    ELSE LET asTarget == {q \in pairs : q[1] = i}
             asSource == {q \in pairs : q[2] = i}
             rest == ApplyRenames(ds, i + 1, pairs)
         IN  IF asSource # {} THEN rest
             ELSE IF asTarget # {}
                  THEN LET s == (CHOOSE q \in asTarget : TRUE)[2]
                       IN  <<[ds[i] EXCEPT !.status = "Renamed",
                                           !.old_path = ds[s].path,
                                           !.old_blob = ds[s].old_blob]>> \o rest
             ELSE <<ds[i]>> \o rest

FindSimilar(ds) == ApplyRenames(ds, 1, RenamePairs(ds, 1, {}))

TreeItem(d, sel) ==
    [id |-> d.id, path |-> d.path, delta |-> d.status, is_selected |-> sel]

MapItems(ds, sel) == [i \in 1..Len(ds) |-> TreeItem(ds[i], sel)]

\* a filter that compares the records by path where the code compares ids
NotStagedByPath(index_deltas, x) ==
    ~ \E j \in 1..Len(index_deltas) : x.path = index_deltas[j].path

\* the filter of the unstaged records against the staged ones
NotStaged(index_deltas, x) ==
    ~ \E j \in 1..Len(index_deltas) : x.id = index_deltas[j].id

\* the two lists on_uncommitted_changes_selected computes
SentinelDeltas(R) ==
    LET workdir_diff ==
            FindSimilar(DiffTreeToWorkdirWithIndex(HeadTree(R), R.index, R.workdir))
        index_diff == FindSimilar(DiffTreeToIndex(HeadTree(R), R.index))
        index_deltas == MapItems(index_diff, TRUE)
        workdir_deltas ==
            SelectSeq(MapItems(workdir_diff, FALSE),
                      LAMBDA x : NotStaged(index_deltas, x))
    IN  <<index_deltas, workdir_deltas>>

\* records of a commit diff that are left unmarked
CommitItemsUnmarked(ds) == MapItems(ds, FALSE)

\* the records of a commit diff: every one is marked as selected
CommitItems(ds) == MapItems(ds, TRUE)

\* the list on_commit_selected computes: the commit against its first parent
CommitDeltas(R, c) ==
    LET ps == R.odb[c].parents
        parent == IF ps = <<>> THEN EmptyTree ELSE R.odb[ps[1]].tree
    IN  CommitItems(FindSimilar(DiffTreeToTree(parent, R.odb[c].tree)))

(***************************************************************************)
(* Repository::statuses(None): one entry per path that differs between     *)
(* HEAD and the index or between the index and the working directory; the  *)
(* default options include untracked and ignored files.                    *)
(***************************************************************************)
StatusEntry(R, p) ==
    LET a == TreeDelta(HeadTree(R), R.index, p)
        b == WorkdirDelta(R.index, R.workdir, p, TRUE)
    IN  IF a = <<>> /\ b = <<>> THEN <<>>
        ELSE <<[path |-> p,
                staged |-> IF a = <<>> THEN "Current" ELSE a[1].status,
                wt |-> IF b = <<>> THEN "Current" ELSE b[1].status]>>

Statuses(R) == Flatten([i \in 1..Len(PathOrder) |-> StatusEntry(R, PathOrder[i])])

IsIgnored(entry) == entry.wt = "Ignored"

\* a count that forgets to leave the ignored entries out
HasAnyStatus(R) == Len(Statuses(R)) > 0

HasUncommittedChanges(R) ==
    Len(SelectSeq(Statuses(R), LAMBDA x : ~IsIgnored(x))) > 0

(***************************************************************************)
(* History walker.                                                         *)
(***************************************************************************)
UNCOMMITTED_STR == "<b>Uncommitted changes</b>"

uncommitted_sentinel ==
    [id |-> ZeroOid, summary |-> UNCOMMITTED_STR, branch_heads |-> <<>>]

\* a test that reads the marker text alone
is_sentinel_by_summary(info) == info.summary = UNCOMMITTED_STR

is_sentinel(info) == info.id = ZeroOid /\ info.summary = UNCOMMITTED_STR

ParentSet(db, c) == Range(db[c].parents)

\* the commits a revwalk marks from its pushed tips: every commit is
\* entered once, however many tips reach it
RECURSIVE MarkReachable(_, _, _)
MarkReachable(db, frontier, seen) ==
    IF frontier = {} THEN seen
    ELSE LET next == (UNION {ParentSet(db, c) : c \in frontier}) \ seen
         IN  MarkReachable(db, next, seen \cup next)

\* a walk sorted by commit time alone
RECURSIVE TopoTimeOrderByTime(_, _)
TopoTimeOrderByTime(db, waiting) ==
    IF waiting = {} THEN <<>>
    ELSE LET best == CHOOSE c \in waiting : \A d \in waiting :
                        \/ db[d].time < db[c].time
                        \/ (db[d].time = db[c].time /\ d <= c)
         IN  <<best>> \o TopoTimeOrderByTime(db, waiting \ {best})

\* Sort::TIME | Sort::TOPOLOGICAL: a commit comes out once none of its
\* children is still waiting; among those the latest commit time first
RECURSIVE TopoTimeOrder(_, _)
TopoTimeOrder(db, waiting) ==
    IF waiting = {} THEN <<>>
    ELSE LET ready == {c \in waiting : \A d \in waiting : c \notin ParentSet(db, d)}
             best == CHOOSE c \in ready : \A d \in ready :
                        \/ db[d].time < db[c].time
                        \/ (db[d].time = db[c].time /\ d <= c)
         IN  <<best>> \o TopoTimeOrder(db, waiting \ {best})

\* a walk seeded with the selected branch alone
SeedSetBranchOnly(R, br) == {R.heads[br]} \ {ZeroOid}

\* a walk without the globs: the selected branch and HEAD alone
SeedSetNoGlob(R, br) == {R.heads[br], HeadCommit(R)} \ {ZeroOid}

\* push_ref(branch), push(HEAD's commit), push_glob("heads/*"),
\* push_glob("remotes/*")
SeedSet(R, br) ==
    ({R.heads[br], HeadCommit(R)}
        \cup {R.heads[n] : n \in LocalSet}
        \cup {R.remotes[n] : n \in RemoteSet}) \ {ZeroOid}

\* a walk that sorts by commit time alone
RevWalkByTime(R, br) ==
    TopoTimeOrderByTime(R.odb, MarkReachable(R.odb, SeedSet(R, br), SeedSet(R, br)))

RevWalk(R, br) == TopoTimeOrder(R.odb, MarkReachable(R.odb, SeedSet(R, br), SeedSet(R, br)))

\* repo.branches(None): local and remote-tracking branches, by reference name
BranchList == LocalNames \o RemoteNames

BranchTip(R, n) == IF n \in LocalSet THEN R.heads[n] ELSE R.remotes[n]

BranchHeads(R, c) == SelectSeq(BranchList, LAMBDA n : BranchTip(R, n) = c)

CommitInfo(R, c) ==
    [id |-> c, summary |-> R.odb[c].summary, branch_heads |-> BranchHeads(R, c)]

ComputeHistory(R, br) ==
    LET walk == RevWalk(R, br)
    IN  (IF HasUncommittedChanges(R) THEN <<uncommitted_sentinel>> ELSE <<>>)
        \o [i \in 1..Len(walk) |-> CommitInfo(R, walk[i])]

(***************************************************************************)
(* The presenters.  P is their state as a record, so that a callback that  *)
(* calls another is a composition; rows and indices are 0-based as in the  *)
(* code, sequences 1-based.                                                *)
(***************************************************************************)
P == [commits |-> commits, cursor |-> cursor, deltas |-> deltas,
      panes |-> panes, running |-> running]

Panic(p) == [p EXCEPT !.running = FALSE]

\* views that add the records to the rows they show
PublishAppending(p, staged, unstaged, pane) ==
    [p EXCEPT !.deltas = <<p.deltas[1] \o staged, p.deltas[2] \o unstaged>>,
              !.panes = pane]

\* set_staged_statuses and set_unstaged_statuses: FileStatusView shows the
\* two lists, as a status (set_items) or as a commit (show_commit)
Publish(p, staged, unstaged, pane) ==
    [p EXCEPT !.deltas = <<staged, unstaged>>, !.panes = pane]

\* BranchPresenter::deltas(): the presenter's copy of the lists it published
BranchDeltas(p) == p.deltas

on_uncommitted_changes_selected(p, R) ==
    IF ~p.running THEN p
    ELSE IF HeadCommit(R) = ZeroOid THEN Panic(p)      \* repo.head().unwrap()
    ELSE LET d == SentinelDeltas(R)
         IN  Publish(p, d[1], d[2], "status")

\* a commit selection that leaves the unstaged list as it was
on_commit_selected_keeps_unstaged(p, R, info) ==
    IF ~p.running THEN p
    ELSE IF info.id \notin DOMAIN R.odb THEN Panic(p)
    ELSE Publish(p, CommitDeltas(R, info.id), p.deltas[2], "commit")

on_commit_selected(p, R, info) ==
    IF ~p.running THEN p
    ELSE IF info.id \notin DOMAIN R.odb THEN Panic(p)  \* expect("Commit to exist in repo")
    ELSE Publish(p, CommitDeltas(R, info.id), <<>>, "commit")

\* a selection that takes row 0 for the sentinel whatever the record there
on_item_selected_first_row(p, R, idx) ==
    IF ~p.running THEN p
    ELSE IF idx >= Len(p.commits) THEN Panic(p)
    ELSE IF idx = 0
         THEN on_uncommitted_changes_selected(p, R)
         ELSE on_commit_selected(p, R, p.commits[idx + 1])

on_item_selected(p, R, idx) ==
    IF ~p.running THEN p
    ELSE IF idx >= Len(p.commits) THEN Panic(p)        \* commits[index]
    ELSE IF is_sentinel(p.commits[idx + 1])
         THEN on_uncommitted_changes_selected(p, R)
         ELSE on_commit_selected(p, R, p.commits[idx + 1])

\* HistoryView::set_history: the rows are replaced and the cursor put back
\* on the row index it had; Gtk drops a cursor whose row does not exist and
\* raises cursor-changed, whose handler selects the row under the cursor
set_history(p, R) ==
    IF p.cursor # <<>> /\ p.cursor[1] < Len(p.commits)
    THEN on_item_selected(p, R, p.cursor[1])
    ELSE [p EXCEPT !.cursor = <<>>]

update_commit_history(p, R, br) ==
    IF ~p.running THEN p
    ELSE IF R.heads[br] = ZeroOid THEN Panic(p)        \* expect("find branch")
    ELSE IF HeadCommit(R) = ZeroOid THEN Panic(p)      \* expect("head can be pushed")
    ELSE set_history([p EXCEPT !.commits = ComputeHistory(R, br)], R)

(***************************************************************************)
(* Change watcher: debounced events and the relevance filter.              *)
(***************************************************************************)
PathKinds == {"NoticeWrite", "NoticeRemove", "Create", "Write", "Chmod", "Remove"}

PathEvent(kind, path) == [kind |-> kind, from |-> <<>>, path |-> <<path>>]
RenameEvent(old, new) == [kind |-> "Rename", from |-> <<old>>, path |-> <<new>>]
RescanEvent == [kind |-> "Rescan", from |-> <<>>, path |-> <<>>]
ErrorEvent(maybe_path) == [kind |-> "Error", from |-> <<>>, path |-> maybe_path]

\* a match that takes the source path of a rename
EventPathSource(event) ==
    CASE event.kind \in PathKinds -> event.path
      [] event.kind = "Rename" -> event.from
      [] event.kind = "Rescan" -> <<>>
      [] event.kind = "Error" -> event.path

\* the match of on_path_change_event: Some(path) as <<path>>, None as <<>>
EventPath(event) ==
    CASE event.kind \in PathKinds -> event.path
      [] event.kind = "Rename" -> event.path
      [] event.kind = "Rescan" -> <<>>
      [] event.kind = "Error" -> event.path

\* Path::ends_with: the last components of path are those of child
EndsWith(path, child) ==
    /\ Len(child) <= Len(path)
    /\ \A i \in 1..Len(child) : path[Len(path) - Len(child) + i] = child[i]

HasGitComponent(path) == \E i \in 1..Len(path) : path[i] = ".git"

\* a filter that keeps the branch selected when the watcher was started
IsRelevantAtStart(path, br) ==
    \/ EndsWith(path, <<"index">>)
    \/ EndsWith(path, LocalNames[1])
    \/ ~HasGitComponent(path)

IsRelevant(path, br) ==
    \/ EndsWith(path, <<"index">>)
    \/ EndsWith(path, br)
    \/ ~HasGitComponent(path)

\* a handler that, after the history, publishes the diff of the selection
\* as it was derived before the history was recomputed
on_path_change_event_stale_diff(p, R, br, event) ==
    LET maybe_path == EventPath(event)
    IN  IF maybe_path = <<>> THEN p
        ELSE IF IsRelevant(maybe_path[1], br)
             THEN LET p0 == IF p.cursor # <<>> /\ p.cursor[1] < Len(p.commits)
                            THEN on_item_selected(p, R, p.cursor[1]) ELSE p
                      p1 == update_commit_history(p, R, br)
                  IN  [p1 EXCEPT !.deltas = p0.deltas, !.panes = p0.panes]
             ELSE p

on_path_change_event(p, R, br, event) ==
    LET maybe_path == EventPath(event)
    IN  IF maybe_path = <<>> THEN p
        ELSE IF IsRelevant(maybe_path[1], br)
             THEN LET p1 == update_commit_history(p, R, br)
                  IN  IF p1.cursor # <<>>
                      THEN on_item_selected(p1, R, p1.cursor[1])
                      ELSE p1
             ELSE p

(***************************************************************************)
(* Index mutator.  A toggle yields the presenters' state and the index.    *)
(***************************************************************************)
on_toggle_staged(p, R, idx) == [p |-> p, index |-> R.index]

on_toggle_unstaged(p, R, idx) ==
    IF idx >= Len(BranchDeltas(p)[2])                  \* deltas().borrow().1[index]
    THEN [p |-> Panic(p), index |-> R.index]
    ELSE LET path == BranchDeltas(p)[2][idx + 1].path
         IN  IF R.workdir[path] = ZeroOid              \* add_path(..).unwrap()
             THEN [p |-> Panic(p), index |-> R.index]
             ELSE LET added == [R.index EXCEPT ![path] = R.workdir[path]]
                      R1 == [R EXCEPT !.index = added]
                  IN  [p |-> on_uncommitted_changes_selected(p, R1),
                       index |-> added]

(***************************************************************************)
(* Actions.  The callbacks of the program, then the steps of its           *)
(* environment: the watcher thread and other processes that write to the   *)
(* repository.  A toggle callback records itself in toggled, which tells   *)
(* a toggle that changed nothing from no toggle at all.                    *)
(***************************************************************************)
Install(p) ==
    /\ commits' = p.commits
    /\ cursor' = p.cursor
    /\ deltas' = p.deltas
    /\ panes' = p.panes
    /\ running' = p.running

\* what toggled records: the list toggled, the row, and the lists shown before
Toggle(list, idx) == <<[list |-> list, idx |-> idx, before |-> deltas]>>

MaxLate == 1

\* Weak::upgrade of the presenter, with a presenter that is never dropped
upgrade_always(isAlive) == TRUE

\* Weak::upgrade of the presenter: Some while the presenter exists
upgrade(isAlive) == isAlive

\* a poll that waits for an event where the code's poll returns at once
PollBlocking ==
    /\ running
    /\ rx # <<>>
    /\ rx' = Tail(rx)
    /\ toggled' = <<>>
    /\ UNCHANGED <<windowVars, lifeVars, viewVars>>
    /\ UNCHANGED <<repoVars, branch, watch>>
    /\ Install(on_path_change_event(P, Repo, branch, Head(rx)))

\* a poll that takes the newest event of the channel
PollNewest ==
    /\ running
    /\ timer
    /\ rx # <<>>
    /\ upgrade(alive)
    /\ rx' = SubSeq(rx, 1, Len(rx) - 1)
    /\ toggled' = <<>>
    /\ UNCHANGED <<windowVars, lifeVars, viewVars>>
    /\ UNCHANGED <<repoVars, branch, watch>>
    /\ Install(on_path_change_event(P, Repo, branch, rx[Len(rx)]))

\* the poll callback of HistoryPresenter::new, every 50 ms: try_recv gives
\* the oldest event of the channel, Empty, or Disconnected once no sender
\* exists and the channel is empty.  On Empty it returns Continue(true) at
\* once, on Disconnected Continue(false); on an event it upgrades the
\* presenter, runs the handler and returns Continue(true), or returns
\* Continue(false) when the presenter is gone
Poll ==
    /\ running
    /\ timer
    /\ \/ rx = <<>> /\ connected /\ alive /\ UNCHANGED vars
       \/ /\ rx = <<>>
          /\ connected
          /\ ~alive
          /\ late' = IF late < MaxLate THEN late + 1 ELSE late
          /\ UNCHANGED <<repoVars, presenterVars, toggled, windowVars, alive,
                         connected, timer, viewVars>>
       \/ /\ rx = <<>>
          /\ ~connected
          /\ timer' = FALSE
          /\ UNCHANGED <<repoVars, presenterVars, toggled, windowVars, alive,
                         connected, late, viewVars>>
       \/ /\ rx # <<>>
          /\ ~upgrade(alive)
          /\ rx' = Tail(rx)
          /\ timer' = FALSE
          /\ UNCHANGED <<repoVars, branch, commits, cursor, deltas, panes,
                         running, watch, toggled, windowVars, alive, connected,
                         late, viewVars>>
       \/ /\ rx # <<>>
          /\ upgrade(alive)
          /\ rx' = Tail(rx)
          /\ toggled' = <<>>
          /\ UNCHANGED <<windowVars, lifeVars, viewVars>>
          /\ UNCHANGED <<repoVars, branch, watch>>
          /\ Install(on_path_change_event(P, Repo, branch, Head(rx)))

\* cursor-changed raised by the user clicking a row of the history list
CursorChanged(row) ==
    /\ running
    /\ row < Len(commits)
    /\ toggled' = <<>>
    /\ UNCHANGED <<windowVars, lifeVars, viewVars>>
    /\ UNCHANGED <<repoVars, branch, rx, watch>>
    /\ Install(on_item_selected([P EXCEPT !.cursor = <<row>>], Repo, row))

ToggleStaged(idx) ==
    /\ running
    /\ toggled' = Toggle("staged", idx)
    /\ UNCHANGED <<windowVars, lifeVars, viewVars>>
    /\ UNCHANGED <<odb, heads, remotes, HEAD, workdir, branch, rx, watch>>
    /\ LET r == on_toggle_staged(P, Repo, idx)
       IN  Install(r.p) /\ index' = r.index

ToggleUnstaged(idx) ==
    /\ running
    /\ toggled' = Toggle("unstaged", idx)
    /\ UNCHANGED <<windowVars, lifeVars, viewVars>>
    /\ UNCHANGED <<odb, heads, remotes, HEAD, workdir, branch, rx, watch>>
    /\ LET r == on_toggle_unstaged(P, Repo, idx)
       IN  Install(r.p) /\ index' = r.index

\* BranchView::set_branch: the selected branch changes and the history view
\* is refreshed (HistoryView::refresh_commit_history)
SetBranch(name) ==
    /\ running
    /\ branch' = name
    /\ toggled' = <<>>
    /\ UNCHANGED <<windowVars, lifeVars, viewVars>>
    /\ UNCHANGED <<repoVars, rx, watch>>
    /\ Install(update_commit_history(P, Repo, name))

\* the watcher thread, once the watch is established: a debounced event
\* enters the channel, which holds at most cap events
Send(cap, event) ==
    /\ running
    /\ watch = "watching"
    /\ connected
    /\ Len(rx) < cap
    /\ rx' = Append(rx, event)
    /\ toggled' = <<>>
    /\ UNCHANGED <<windowVars, lifeVars, viewVars>>
    /\ UNCHANGED <<repoVars, branch, commits, cursor, deltas, panes, watch, running>>

WatcherSend(event) == Send(MaxQueue, event)

\* a file of the working directory is written or removed
WriteFile(path, blob) ==
    /\ running
    /\ workdir[path] # blob
    /\ workdir' = [workdir EXCEPT ![path] = blob]
    /\ toggled' = <<>>
    /\ UNCHANGED <<windowVars, lifeVars, viewVars>>
    /\ UNCHANGED <<odb, heads, remotes, HEAD, index, presenterVars>>

\* git add / git rm --cached from a shell
GitAdd(path) ==
    /\ running
    /\ index[path] # workdir[path]
    /\ index' = [index EXCEPT ![path] = workdir[path]]
    /\ toggled' = <<>>
    /\ UNCHANGED <<windowVars, lifeVars, viewVars>>
    /\ UNCHANGED <<odb, heads, remotes, HEAD, workdir, presenterVars>>

NewCommit(parents, time, tree) ==
    [parents |-> parents, time |-> time, tree |-> tree, summary |-> "work"]

\* git commit --allow-empty from a shell: the index becomes a commit on
\* HEAD's branch; skew is 0 for a commit made within the same second as its
\* parent
GitCommit(skew) ==
    /\ running
    /\ Len(odb) < MaxCommits
    /\ HeadCommit(Repo) # ZeroOid
    /\ odb' = Append(odb, NewCommit(<<HeadCommit(Repo)>>,
                                     odb[HeadCommit(Repo)].time + skew, index))
    /\ heads' = [heads EXCEPT ![HEAD] = Len(odb) + 1]
    /\ toggled' = <<>>
    /\ UNCHANGED <<windowVars, lifeVars, viewVars>>
    /\ UNCHANGED <<remotes, HEAD, index, workdir, presenterVars>>

IsAncestor(db, a, d) == a \in MarkReachable(db, {d}, {d})

\* git merge --no-ff other, from a shell, with the index as the merged tree
GitMerge(other) ==
    /\ running
    /\ Len(odb) < MaxCommits
    /\ HeadCommit(Repo) # ZeroOid
    /\ heads[other] # ZeroOid
    /\ ~IsAncestor(odb, heads[other], HeadCommit(Repo))
    /\ odb' = Append(odb, NewCommit(<<HeadCommit(Repo), heads[other]>>,
                                     odb[HeadCommit(Repo)].time + 1, index))
    /\ heads' = [heads EXCEPT ![HEAD] = Len(odb) + 1]
    /\ toggled' = <<>>
    /\ UNCHANGED <<windowVars, lifeVars, viewVars>>
    /\ UNCHANGED <<remotes, HEAD, index, workdir, presenterVars>>

\* git branch -f / git branch -D from a shell (git refuses the current branch)
GitBranch(name, c) ==
    /\ running
    /\ name # HEAD
    /\ c \in (DOMAIN odb) \cup {ZeroOid}
    /\ heads[name] # c
    /\ heads' = [heads EXCEPT ![name] = c]
    /\ toggled' = <<>>
    /\ UNCHANGED <<windowVars, lifeVars, viewVars>>
    /\ UNCHANGED <<odb, remotes, HEAD, index, workdir, presenterVars>>

\* git fetch / git remote prune: a remote-tracking ref moves or goes
GitFetch(name, c) ==
    /\ running
    /\ c \in (DOMAIN odb) \cup {ZeroOid}
    /\ remotes[name] # c
    /\ remotes' = [remotes EXCEPT ![name] = c]
    /\ toggled' = <<>>
    /\ UNCHANGED <<windowVars, lifeVars, viewVars>>
    /\ UNCHANGED <<odb, heads, HEAD, index, workdir, presenterVars>>

\* git symbolic-ref HEAD refs/heads/name
GitSwitch(name) ==
    /\ running
    /\ name # HEAD
    /\ heads[name] # ZeroOid
    /\ HEAD' = name
    /\ toggled' = <<>>
    /\ UNCHANGED <<windowVars, lifeVars, viewVars>>
    /\ UNCHANGED <<odb, heads, remotes, index, workdir, presenterVars>>

\* git reset --soft HEAD~1 from a shell: HEAD's branch moves to the first
\* parent of its tip
GitReset ==
    /\ running
    /\ HeadCommit(Repo) # ZeroOid
    /\ odb[HeadCommit(Repo)].parents # <<>>
    /\ heads' = [heads EXCEPT ![HEAD] = odb[HeadCommit(Repo)].parents[1]]
    /\ toggled' = <<>>
    /\ UNCHANGED <<windowVars, lifeVars, viewVars>>
    /\ UNCHANGED <<odb, remotes, HEAD, index, workdir, presenterVars>>

(***************************************************************************)
(* Initial state: a repository of one commit holding a.txt, clean, with    *)
(* both local branches on it, opened by MainWindow::with_repo, which       *)
(* computes the first history for the first local branch and selects no    *)
(* row.                                                                    *)
(***************************************************************************)
RootTree == [p \in Paths |-> IF p = "a.txt" THEN 1 ELSE ZeroOid]

\* the directories the file chooser can return: three repositories (the one
\* of the initial state, another and one made by git init, without a commit
\* or a branch) and a directory that is not a repository
Root == "repo"
OtherRoot == "other"
UnbornRoot == "unborn"
NotARepo == "notes"
RepoDirs == {Root, OtherRoot, UnbornRoot}
Dirs == RepoDirs \cup {NotARepo}
NoRepo == "none"

InitRepo(tree) ==
    [odb |-> <<NewCommit(<<>>, 1, tree)>>,
     heads |-> [n \in LocalSet |-> 1],
     remotes |-> [n \in RemoteSet |-> ZeroOid],
     HEAD |-> Master,
     index |-> tree,
     workdir |-> tree]

\* the repository of OtherRoot: two commits on master, no dev
OtherTree == [p \in Paths |-> IF p = "b.txt" THEN 2 ELSE ZeroOid]

OtherRepo ==
    [odb |-> <<NewCommit(<<>>, 1, EmptyTree), NewCommit(<<1>>, 2, OtherTree)>>,
     heads |-> [n \in LocalSet |-> IF n = Master THEN 2 ELSE ZeroOid],
     remotes |-> [n \in RemoteSet |-> ZeroOid],
     HEAD |-> Master,
     index |-> OtherTree,
     workdir |-> OtherTree]

\* the repository of UnbornRoot: HEAD names master, which does not exist
UnbornRepo ==
    [odb |-> <<>>,
     heads |-> [n \in LocalSet |-> ZeroOid],
     remotes |-> [n \in RemoteSet |-> ZeroOid],
     HEAD |-> Master,
     index |-> EmptyTree,
     workdir |-> EmptyTree]

InitDisk ==
    [d \in RepoDirs |->
        IF d = Root THEN InitRepo(RootTree)
        ELSE IF d = OtherRoot THEN OtherRepo ELSE UnbornRepo]

\* MainPresenter::update_branches: the names of the local branches
local_branches(R) == SelectSeq(LocalNames, LAMBDA n : R.heads[n] # ZeroOid)

WatchOutcomes == {"watching", "attach_failed", "create_failed"}

\* HistoryView::new: HistoryPresenter::new creates the watcher and unwraps
\* it, then start computes the first history and attaches the watch, whose
\* failure goes to handle_error
StartWith(outcome) ==
    /\ odb = InitRepo(RootTree).odb
    /\ heads = InitRepo(RootTree).heads
    /\ remotes = InitRepo(RootTree).remotes
    /\ HEAD = InitRepo(RootTree).HEAD
    /\ index = InitRepo(RootTree).index
    /\ workdir = InitRepo(RootTree).workdir
    /\ branch = LocalNames[1]
    /\ cursor = <<>>
    /\ deltas = <<<<>>, <<>>>>
    /\ panes = "none"
    /\ rx = <<>>
    /\ toggled = <<>>
    /\ opened = Root
    /\ disk = InitDisk
    /\ config = Root
    /\ title = Root
    /\ alive = TRUE
    /\ connected = TRUE
    /\ timer = TRUE
    /\ late = 0
    /\ summ = <<>>
    /\ chunk = <<>>
    /\ diffview = [files |-> <<>>]
    /\ IF outcome = "create_failed"
       THEN /\ commits = <<>> /\ watch = "none" /\ running = FALSE
            /\ branches = <<>> /\ error = <<>> /\ watched = NoRepo
       ELSE /\ commits = ComputeHistory(InitRepo(RootTree), LocalNames[1])
            /\ watch = (IF outcome = "watching" THEN "watching" ELSE "warned")
            /\ running = TRUE
            /\ branches = local_branches(InitRepo(RootTree))
            /\ error = (IF outcome = "watching" THEN <<>> ELSE <<"watch">>)
            /\ watched = (IF outcome = "watching" THEN Root ELSE NoRepo)

\* the watch is established
Init == StartWith("watching")

\* the watch is established, or cannot be
InitSelect == \E outcome \in WatchOutcomes : StartWith(outcome)

WorkFile == <<Root, "a.txt">>
GitIndex == <<Root, ".git", "index">>
GitIndexLock == <<Root, ".git", "index.lock">>
GitObject == <<Root, ".git", "objects", "ab", "cdef">>
GitReflogDev == <<Root, ".git", "logs", "refs", "heads", "dev">>

\* the events the watcher delivers in Spec: a working file written, an
\* object created by git, the reflog of a branch appended to, the index
\* replaced by its lock file
StageEvents ==
    {PathEvent("Write", WorkFile), PathEvent("Create", GitObject),
     PathEvent("Write", GitReflogDev), RenameEvent(GitIndexLock, GitIndex)}

(***************************************************************************)
(* Spec: the staging machine.  The history of the repository is fixed; the *)
(* working directory and the index change under the program.  The toggle   *)
(* handlers take any row index 0..MaxRow, a row of the snapshot or not:    *)
(* they check only that the index is not negative.                         *)
(***************************************************************************)
Next ==
    \/ Poll
    \/ \E row \in 0..MaxRow : CursorChanged(row)
    \/ \E idx \in 0..MaxRow : ToggleStaged(idx)
    \/ \E idx \in 0..MaxRow : ToggleUnstaged(idx)
    \/ \E event \in StageEvents : WatcherSend(event)
    \/ \E path \in TrackedPaths : \E blob \in Blobs \cup {ZeroOid} : WriteFile(path, blob)
    \/ \E path \in IgnoredPaths : \E blob \in {ZeroOid, 1} : WriteFile(path, blob)
    \/ \E path \in TrackedPaths : GitAdd(path)

Spec == Init /\ [][Next]_vars

(***************************************************************************)
(* SpecHistory: the history walker.  Commits and merges are made on HEAD's *)
(* branch, HEAD switches, the other branch and the remote-tracking ref     *)
(* move or go; the index and the working directory stay clean.             *)
(***************************************************************************)
GitRefMaster == <<Root, ".git", "refs", "heads", "master">>

\* the events the watcher delivers in SpecHistory: a branch ref written,
\* and a rescan, which names no path
HistoryEvents == {PathEvent("Write", GitRefMaster), RescanEvent}

NextHistory ==
    \/ Poll
    \/ \E name \in LocalSet : SetBranch(name)
    \/ \E event \in HistoryEvents : WatcherSend(event)
    \/ \E skew \in {0, 1} : GitCommit(skew)
    \/ \E name \in LocalSet : GitMerge(name)
    \/ \E name \in LocalSet : \E c \in 0..MaxCommits : GitBranch(name, c)
    \/ \E name \in RemoteSet : \E c \in 0..MaxCommits : GitFetch(name, c)
    \/ \E name \in LocalSet : GitSwitch(name)

SpecHistory == Init /\ [][NextHistory]_vars

(***************************************************************************)
(* SpecSelect: the selection machine.  The watch is established or not;    *)
(* commits are made on HEAD's branch and taken back, a tracked file comes  *)
(* and goes, the selected branch changes, rows are selected, and the       *)
(* watcher delivers events of every kind of path.                          *)
(***************************************************************************)
GitRefDev == <<Root, ".git", "refs", "heads", "dev">>

SelectEvents ==
    {PathEvent("Write", WorkFile), RenameEvent(GitIndexLock, GitIndex),
     PathEvent("Write", GitRefMaster), PathEvent("Write", GitRefDev), RescanEvent}

NextSelect ==
    \/ Poll
    \/ \E row \in 0..MaxCommits : CursorChanged(row)
    \/ \E name \in LocalSet : SetBranch(name)
    \/ \E event \in SelectEvents : WatcherSend(event)
    \/ \E blob \in {ZeroOid, 1} : WriteFile("a.txt", blob)
    \/ GitCommit(1)
    \/ GitReset
    \/ \E c \in 1..MaxCommits : GitBranch(Dev, c)

SpecSelect == InitSelect /\ [][NextSelect]_vars

(***************************************************************************)
(* SpecBurst: the watcher delivers the events of one change in a burst, so *)
(* that several wait in the channel.                                       *)
(***************************************************************************)
MaxBurst == 2       \* events of one burst waiting in the channel

BurstEvents ==
    {PathEvent("Write", WorkFile), RenameEvent(GitIndexLock, GitIndex),
     PathEvent("Create", GitObject)}

NextBurst ==
    \/ Poll
    \/ \E row \in 0..MaxRow : CursorChanged(row)
    \/ \E event \in BurstEvents : Send(MaxBurst, event)
    \/ \E blob \in Blobs \cup {ZeroOid} : WriteFile("a.txt", blob)

SpecBurst == Init /\ [][NextBurst]_vars

(***************************************************************************)
(* SpecOrder: the order of the walk.  The object database is any graph of  *)
(* MaxWalk commits, each with one or two parents among the commits made    *)
(* before it and with any commit time 1..MaxTime (a commit time is data of *)
(* the commit: a rebase or a skewed clock makes a child older than its     *)
(* parent).  The graph arrives with a pull; master stays on its last       *)
(* commit, dev moves, the working directory stays clean.                   *)
(***************************************************************************)
MaxWalk == 4        \* commits of the graphs walked
MaxTime == 3        \* commit times 1..MaxTime

ParentChoices(c) ==
    {<<q>> : q \in 1..(c - 1)}
        \cup ({<<q, r>> : q, r \in 1..(c - 1)} \ {<<q, q>> : q \in 1..(c - 1)})

\* the graphs of n commits: a root, then commits with parents among the
\* commits made before them
RECURSIVE GraphsOf(_, _, _)
GraphsOf(n, times, trees) ==
    IF n = 0 THEN {<<>>}
    ELSE {Append(g, NewCommit(ps, t, tr)) :
             g \in GraphsOf(n - 1, times, trees),
             ps \in (IF n = 1 THEN {<<>>} ELSE ParentChoices(n)),
             t \in times,
             tr \in trees}

WalkGraphs == GraphsOf(MaxWalk, 1..MaxTime, {RootTree})

\* git pull from a shell: the commits of a graph that extends the object
\* database arrive at once, HEAD's branch moves to the last of them and its
\* tree is checked out
GitPull(db) ==
    /\ running
    /\ Len(odb) = 1
    /\ db[1] = odb[1]
    /\ odb' = db
    /\ heads' = [heads EXCEPT ![HEAD] = Len(db)]
    /\ index' = db[Len(db)].tree
    /\ workdir' = db[Len(db)].tree
    /\ toggled' = <<>>
    /\ UNCHANGED <<windowVars, lifeVars, viewVars>>
    /\ UNCHANGED <<remotes, HEAD, presenterVars>>

NextOrder ==
    \/ Poll
    \/ \E event \in {PathEvent("Write", GitRefDev)} : WatcherSend(event)
    \/ \E db \in WalkGraphs : GitPull(db)
    \/ \E c \in 1..MaxWalk : GitBranch(Dev, c)

SpecOrder == Init /\ [][NextOrder]_vars

(***************************************************************************)
(* SpecDiff: the diff engine.  The object database is any graph of         *)
(* MaxCommits commits (a chain, a fork, a merge in either parent order)     *)
(* whose trees hold any content of a.txt and b.txt; b.txt is               *)
(* written and removed in the working directory, rows are selected.        *)
(***************************************************************************)
DiffTrees ==
    {t \in [Paths -> Blobs \cup {ZeroOid}] : t["tmp.log"] = ZeroOid}

DiffGraphs == GraphsOf(MaxCommits, {1}, DiffTrees)

NextDiff ==
    \/ Poll
    \/ \E row \in 0..MaxCommits : CursorChanged(row)
    \/ \E event \in {PathEvent("Write", WorkFile)} : WatcherSend(event)
    \/ \E db \in DiffGraphs : GitPull(db)
    \/ \E blob \in {ZeroOid, 1} : WriteFile("b.txt", blob)

SpecDiff == Init /\ [][NextDiff]_vars

(***************************************************************************)
(* SpecSentinel: the sentinel among the records.  Commits are made with a  *)
(* message of their author's choice, which can be the marker text of the   *)
(* sentinel; a.txt comes and goes, rows are selected.                      *)
(***************************************************************************)
SummaryTexts == {"work", UNCOMMITTED_STR}

\* git commit --allow-empty -m text, from a shell
GitCommitAs(text) ==
    /\ running
    /\ Len(odb) < MaxCommits
    /\ HeadCommit(Repo) # ZeroOid
    /\ odb' = Append(odb, [NewCommit(<<HeadCommit(Repo)>>,
                                      odb[HeadCommit(Repo)].time + 1, index)
                               EXCEPT !.summary = text])
    /\ heads' = [heads EXCEPT ![HEAD] = Len(odb) + 1]
    /\ toggled' = <<>>
    /\ UNCHANGED <<windowVars, lifeVars, viewVars>>
    /\ UNCHANGED <<remotes, HEAD, index, workdir, presenterVars>>

NextSentinel ==
    \/ Poll
    \/ \E row \in 0..MaxCommits : CursorChanged(row)
    \/ \E event \in {PathEvent("Write", WorkFile)} : WatcherSend(event)
    \/ \E text \in SummaryTexts : GitCommitAs(text)
    \/ \E blob \in {ZeroOid, 1} : WriteFile("a.txt", blob)

SpecSentinel == Init /\ [][NextSentinel]_vars

(***************************************************************************)
(* SpecOpen: opening repositories.  The program starts with the init       *)
(* window; a directory chosen there opens the main window, a directory     *)
(* chosen in the main window replaces its repository.  Commits are made    *)
(* and a.txt is written in the open repository, rows and branches are      *)
(* selected, the watcher reports a.txt of the directory it watches.        *)
(***************************************************************************)
\* git2::Repository::open
Opens(path) == path \in RepoDirs

\* the message of the error Repository::open returns
OpenError(path) == <<"open", path>>

\* the content of the repository at path, the open one or another
RepoAt(path) == IF path = opened THEN Repo ELSE disk[path]

\* MainPresenter::start: set_title, then update_branches, whose
\* MainWindow::set_branches hands the repository and the first branch to
\* the branch view, which refreshes the history, and then keeps the names
MainStart(p, R, path) ==
    LET names == local_branches(R)
    IN  IF names = <<>>
        THEN [p |-> Panic(p), branch |-> branch, branches |-> branches]   \* branches[0]
        ELSE LET p1 == update_commit_history(p, R, names[1])
             IN  [p |-> p1, branch |-> names[1],
                  branches |-> IF p1.running THEN names ELSE branches]

\* the repository at path becomes the one the presenters read
OpenRepo(path) ==
    /\ odb' = RepoAt(path).odb
    /\ heads' = RepoAt(path).heads
    /\ remotes' = RepoAt(path).remotes
    /\ HEAD' = RepoAt(path).HEAD
    /\ index' = RepoAt(path).index
    /\ workdir' = RepoAt(path).workdir
    /\ opened' = path
    /\ disk' = IF path = opened \/ opened = NoRepo THEN disk
               ELSE [disk EXCEPT ![opened] = Repo]

\* a select_repo that persists the directory before it opens it
MainSelectRepoPersistFirst(path) ==
    /\ running
    /\ opened # NoRepo
    /\ toggled' = <<>>
    /\ UNCHANGED <<lifeVars, viewVars>>
    /\ config' = path
    /\ IF ~Opens(path)
       THEN /\ error' = OpenError(path)
            /\ UNCHANGED <<repoVars, presenterVars, opened, disk, branches,
                           title, watched>>
       ELSE /\ OpenRepo(path)
            /\ title' = path
            /\ LET s == MainStart(P, RepoAt(path), path)
               IN  /\ Install(s.p)
                   /\ branch' = s.branch
                   /\ branches' = s.branches
            /\ UNCHANGED <<rx, watch, watched, error>>

\* MainPresenter::select_repo, from the file chooser of the main window
MainSelectRepo(path) ==
    /\ running
    /\ opened # NoRepo
    /\ toggled' = <<>>
    /\ UNCHANGED <<lifeVars, viewVars>>
    /\ IF ~Opens(path)
       THEN /\ error' = OpenError(path)
            /\ UNCHANGED <<repoVars, presenterVars, opened, disk, branches,
                           config, title, watched>>
       ELSE /\ OpenRepo(path)
            /\ config' = path
            /\ title' = path
            /\ LET s == MainStart(P, RepoAt(path), path)
               IN  /\ Install(s.p)
                   /\ branch' = s.branch
                   /\ branches' = s.branches
            /\ UNCHANGED <<rx, watch, watched, error>>

\* InitPresenter::select_repo, from the file chooser of the init window:
\* MainWindow::with_repo builds the views, whose watcher watches the
\* directory, and starts the presenter; the directory is persisted after it
InitSelectRepo(path) ==
    /\ running
    /\ opened = NoRepo
    /\ toggled' = <<>>
    /\ UNCHANGED viewVars
    /\ IF ~Opens(path)
       THEN /\ error' = OpenError(path)
            /\ UNCHANGED <<repoVars, presenterVars, opened, disk, branches,
                           config, title, watched, lifeVars>>
       ELSE /\ OpenRepo(path)
            /\ alive' = TRUE
            /\ connected' = TRUE
            /\ timer' = TRUE
            /\ UNCHANGED late
            /\ watch' = "watching"
            /\ watched' = path
            /\ title' = path
            /\ LET s == MainStart(P, RepoAt(path), path)
               IN  /\ Install(s.p)
                   /\ branch' = s.branch
                   /\ branches' = s.branches
                   /\ config' = IF s.p.running THEN path ELSE config
            /\ UNCHANGED <<rx, error>>

\* MainWindow::set_branch_by_index, from a row of the sidebar
SetBranchByIndex(idx) ==
    /\ idx < Len(branches)
    /\ SetBranch(branches[idx + 1])

\* the program starts without a persisted directory: the init window
InitOpen ==
    /\ odb = UnbornRepo.odb
    /\ heads = UnbornRepo.heads
    /\ remotes = UnbornRepo.remotes
    /\ HEAD = UnbornRepo.HEAD
    /\ index = UnbornRepo.index
    /\ workdir = UnbornRepo.workdir
    /\ branch = <<>>
    /\ commits = <<>>
    /\ cursor = <<>>
    /\ deltas = <<<<>>, <<>>>>
    /\ panes = "none"
    /\ rx = <<>>
    /\ watch = "none"
    /\ running = TRUE
    /\ toggled = <<>>
    /\ opened = NoRepo
    /\ disk = InitDisk
    /\ branches = <<>>
    /\ config = NoRepo
    /\ title = NoRepo
    /\ error = <<>>
    /\ alive = FALSE
    /\ connected = FALSE
    /\ timer = FALSE
    /\ late = 0
    /\ summ = <<>>
    /\ chunk = <<>>
    /\ diffview = [files |-> <<>>]
    /\ watched = NoRepo

NextOpen ==
    \/ Poll
    \/ \E row \in 0..MaxCommits : CursorChanged(row)
    \/ \E idx \in 0..(Len(LocalNames) - 1) : SetBranchByIndex(idx)
    \/ \E path \in Dirs : InitSelectRepo(path)
    \/ \E path \in Dirs : MainSelectRepo(path)
    \/ \E event \in {PathEvent("Write", <<watched, "a.txt">>)} : WatcherSend(event)
    \/ GitCommit(1)
    \/ \E blob \in {ZeroOid, 1} : opened # NoRepo /\ WriteFile("a.txt", blob)

SpecOpen == InitOpen /\ [][NextOpen]_vars

(***************************************************************************)
(* The summary of a commit record.  A string is the sequence of its        *)
(* characters, a character the pair of its width in UTF-8 bytes and of a   *)
(* tag telling it from the others; the bytes of a string are the pairs of  *)
(* a character's position and of the byte's position in the character.     *)
(* SpecSummary builds the record of one commit after another, as the loop  *)
(* of update_commit_history does.                                          *)
(***************************************************************************)
SummaryLimit == 80

MaxAscii == 82

MaxTail == 2

MaxWidth == 3

\* k one-byte characters, then j characters of w bytes each
Msg(k, j, w) == [i \in 1..(k + j) |-> IF i <= k THEN <<1, i>> ELSE <<w, i>>]

Messages ==
    {Msg(k, j, w) : k \in 0..MaxAscii, j \in 0..MaxTail, w \in 2..MaxWidth}

\* "<No summary found>"
NoSummaryFound == [i \in 1..18 |-> <<1, 0>>]

\* a commit's message: git2's summary() is None when it is not UTF-8
CommitMessages ==
    {[utf8 |-> TRUE, chars |-> m] : m \in Messages}
        \cup {[utf8 |-> FALSE, chars |-> <<>>]}

RECURSIVE Bytes(_)
Bytes(str) ==
    IF str = <<>> THEN <<>>
    ELSE LET n == Len(str)
         IN  Bytes(SubSeq(str, 1, n - 1))
                 \o [b \in 1..str[n][1] |-> <<n, b>>]

Min(a, b) == IF a <= b THEN a ELSE b

full_summary_str(c) == IF c.utf8 THEN c.chars ELSE NoSummaryFound

\* &full_summary[0..min(80, full_summary.len())]: a slice of bytes, which
\* panics unless it ends on the boundary of a character
summary_str(c) ==
    LET full == full_summary_str(c)
        bytes == Bytes(full)
        n == Min(SummaryLimit, Len(bytes))
    IN  IF n = 0 THEN [ok |-> TRUE, str |-> <<>>]
        ELSE IF bytes[n][2] = full[bytes[n][1]][1]
             THEN [ok |-> TRUE, str |-> SubSeq(full, 1, bytes[n][1])]
             ELSE [ok |-> FALSE, str |-> <<>>]

\* the record of a commit is built: CommitInfo { summary: summary_str(), .. }
Summarise(c) ==
    /\ running
    /\ LET r == summary_str(c)
       IN  IF r.ok
           THEN /\ summ' = <<[message |-> c, summary |-> r.str]>>
                /\ UNCHANGED running
           ELSE /\ running' = FALSE
                /\ UNCHANGED summ
    /\ toggled' = <<>>
    /\ UNCHANGED <<windowVars, lifeVars, chunk, diffview>>
    /\ UNCHANGED <<repoVars, branch, commits, cursor, deltas, panes, rx, watch>>

NextSummary == \E c \in CommitMessages : Summarise(c)

SpecSummary == Init /\ [][NextSummary]_vars

(***************************************************************************)
(* The hunk view.  DiffChunkView::new starts its presenter, and the        *)
(* changed signal of the selection hands the presenter the selected rows   *)
(* in the order of the tree.  SpecChunk builds hunk views and selects      *)
(* lines in them.                                                          *)
(***************************************************************************)
MaxLine == 6

DiffContext == {"Committed", "Staged", "Working"}

\* the rows of a set, ascending: get_selected_rows
RECURSIVE Ascending(_)
Ascending(S) ==
    IF S = {} THEN <<>>
    ELSE LET m == CHOOSE x \in S : \A y \in S : y <= x
         IN  Append(Ascending(S \ {m}), m)

Selections == {Ascending(S) : S \in SUBSET (0..(MaxLine - 1))}

\* lines.windows(2).all(|s| s[1] == s[0] + 1), on the first pair alone
is_contiguous_first_pair(lines) ==
    Len(lines) < 2 \/ lines[2] = lines[1] + 1

\* lines.windows(2).all(|s| s[1] == s[0] + 1)
is_contiguous(lines) ==
    \A i \in 1..(Len(lines) - 1) : lines[i + 1] = lines[i] + 1

\* DiffChunkViewable: what the primary button shows
show_revert_selected_lines == [sensitive |-> TRUE, label |-> "Revert Selected Lines"]

show_unstage_selected_lines == [sensitive |-> TRUE, label |-> "Unstage Selected Lines"]

show_stage_selected_lines == [sensitive |-> TRUE, label |-> "Stage Selected Lines"]

show_revert_all_lines == [sensitive |-> TRUE, label |-> "Revert All Lines"]

show_stage_all_lines == [sensitive |-> TRUE, label |-> "Stage All Lines"]

show_unstage_all_lines == [sensitive |-> TRUE, label |-> "Unstage All Lines"]

show_incontiguous_selection_error ==
    [sensitive |-> FALSE, label |-> "Incontiguous selection"]

\* DiffChunkPresenter::handle_on_selected_lines: the button of the view
handle_on_selected_lines(context, lines) ==
    LET has_selection == Len(lines) > 0
    IN  CASE context = "Committed" ->
                 IF has_selection /\ is_contiguous(lines)
                 THEN show_revert_selected_lines
                 ELSE IF ~has_selection THEN show_revert_all_lines
                 ELSE show_incontiguous_selection_error
          [] context = "Staged" ->
                 IF has_selection /\ is_contiguous(lines)
                 THEN show_unstage_selected_lines
                 ELSE IF ~has_selection THEN show_unstage_all_lines
                 ELSE show_incontiguous_selection_error
          [] context = "Working" ->
                 IF has_selection /\ is_contiguous(lines)
                 THEN show_stage_selected_lines
                 ELSE IF ~has_selection THEN show_stage_all_lines
                 ELSE show_incontiguous_selection_error

\* DiffChunkView::new: the view is built and its presenter started
NewChunk(context) ==
    /\ running
    /\ chunk' = <<[context |-> context, rows |-> <<>>,
                   button |-> handle_on_selected_lines(context, <<>>)]>>
    /\ toggled' = <<>>
    /\ UNCHANGED <<windowVars, lifeVars, summ, diffview>>
    /\ UNCHANGED <<repoVars, presenterVars>>

\* the changed signal of the selection of the lines tree
SelectLines(rows) ==
    /\ running
    /\ chunk # <<>>
    /\ chunk' = <<[chunk[1] EXCEPT
                      !.rows = rows,
                      !.button = handle_on_selected_lines(chunk[1].context, rows)]>>
    /\ toggled' = <<>>
    /\ UNCHANGED <<windowVars, lifeVars, summ, diffview>>
    /\ UNCHANGED <<repoVars, presenterVars>>

NextChunk ==
    \/ \E context \in DiffContext : NewChunk(context)
    \/ \E rows \in Selections : SelectLines(rows)

SpecChunk == Init /\ [][NextChunk]_vars

(***************************************************************************)
(* The diff view.  The text of a diff is a sequence of tokens: "bad" is a  *)
(* byte sequence that is not UTF-8, "NO_NL" the text of NO_NL_STR.  A      *)
(* delta of a diff is a text file with its hunks, a binary file, or a      *)
(* rename without a change of content.  SpecView sets one diff after       *)
(* another.                                                                *)
(***************************************************************************)
MaxFiles == 2

MaxHunks == 1

MaxLines == 2

NO_NL_STR == <<"NO_NL">>

RECURSIVE SeqsUpTo(_, _)
SeqsUpTo(S, n) ==
    IF n = 0 THEN {<<>>}
    ELSE LET shorter == SeqsUpTo(S, n - 1)
         IN  shorter \cup {Append(s, x) : s \in shorter, x \in S}

\* a hunk: its header, whose function context is UTF-8 or not, and its
\* lines, whose content is plain with trailing white space, not UTF-8, or
\* the marker of a missing newline
Hunks ==
    {[header |-> h, lines |-> l] :
        h \in {<<"@@", "fn">>, <<"@@", "bad">>},
        l \in SeqsUpTo({<<"a", " ", "\n">>, <<"a", "bad", "\n">>,
                        <<"\\", " ", "NO_NL", "\n">>}, MaxLines) \ {<<>>}}

DiffFiles ==
    {[kind |-> "text", hunks |-> hs] : hs \in SeqsUpTo(Hunks, MaxHunks) \ {<<>>}}
        \cup {[kind |-> "binary", hunks |-> <<>>],
              [kind |-> "renamed", hunks |-> <<>>]}

Diffs == SeqsUpTo(DiffFiles, MaxFiles) \ {<<>>}

\* std::str::from_utf8: <<>> for Err, <<text>> for Ok
from_utf8(bytes) == IF "bad" \in Range(bytes) THEN <<>> ELSE <<bytes>>

RECURSIVE trim_right(_)
trim_right(v) ==
    IF v # <<>> /\ v[Len(v)] \in {" ", "\n"}
    THEN trim_right(SubSeq(v, 1, Len(v) - 1))
    ELSE v

ends_with(v, suffix) ==
    /\ Len(suffix) <= Len(v)
    /\ SubSeq(v, Len(v) - Len(suffix) + 1, Len(v)) = suffix

\* HumanDiffLineExt::content_str: <<>> for None
content_str(content) ==
    LET r == from_utf8(content)
    IN  IF r = <<>> THEN <<>>
        ELSE IF ends_with(trim_right(r[1]), NO_NL_STR) THEN <<NO_NL_STR>>
        ELSE <<trim_right(r[1])>>

\* git2::Patch::from_diff(&diff, n).unwrap(): <<>> for None.  For a binary
\* file the library documents None; builds of it return a patch without
\* hunks
from_diff(file, binary_patch) ==
    IF file.kind = "binary" /\ ~binary_patch THEN <<>>
    ELSE <<[hunks |-> file.hunks]>>

\* DiffChunkView::new: the rows of the list store and the started presenter
DiffChunkView(context, hunk) ==
    [context |-> context,
     header |-> from_utf8(hunk.header)[1],
     lines |-> [i \in 1..Len(hunk.lines) |->
                   LET c == content_str(hunk.lines[i])
                   IN  IF c = <<>> THEN <<"<unknown>">> ELSE c[1]],
     button |-> handle_on_selected_lines(context, <<>>)]

\* DiffFileView::new: one chunk view for each hunk of the patch
DiffFileView(context, patch) ==
    [children |-> [h \in 1..Len(patch.hunks) |->
                      DiffChunkView(context, patch.hunks[h])]]

\* the unwraps of set_diff and DiffFileView::new succeed for every delta
Unwraps(patches) ==
    \A n \in 1..Len(patches) :
        /\ patches[n] # <<>>
        /\ \A h \in 1..Len(patches[n][1].hunks) :
               from_utf8(patches[n][1].hunks[h].header) # <<>>

\* DiffView::set_diff
SetDiff(diff, context) ==
    /\ running
    /\ \E binary_patch \in BOOLEAN :
          LET patches == [n \in 1..Len(diff) |-> from_diff(diff[n], binary_patch)]
          IN  IF Unwraps(patches)
              THEN /\ diffview' =
                          [files |-> [n \in 1..Len(diff) |->
                                         DiffFileView(context, patches[n][1])]]
                   /\ UNCHANGED running
              ELSE /\ running' = FALSE
                   /\ UNCHANGED diffview
    /\ toggled' = <<>>
    /\ UNCHANGED <<windowVars, lifeVars, summ, chunk>>
    /\ UNCHANGED <<repoVars, branch, commits, cursor, deltas, panes, rx, watch>>

NextView == \E diff \in Diffs, context \in DiffContext : SetDiff(diff, context)

SpecView == Init /\ [][NextView]_vars

(***************************************************************************)
(* SpecLife: the end of the presenter.  The presenter owns the watcher,    *)
(* which owns the sender of the channel: when the presenter is dropped     *)
(* its views are gone, and the watcher's thread ends and drops the sender  *)
(* some time later; the events sent before that stay in the channel.  The  *)
(* poll callback is owned by the main loop and outlives the presenter.     *)
(* Under SpecLifeFair the timer fires again and again while the callback   *)
(* is scheduled.                                                           *)
(***************************************************************************)
\* the last Rc of the HistoryPresenter is dropped
DropPresenter ==
    /\ running
    /\ alive
    /\ alive' = FALSE
    /\ toggled' = <<>>
    /\ UNCHANGED <<repoVars, presenterVars, windowVars, connected, timer, late,
                   viewVars>>

\* the watcher's thread ends after the watcher was dropped: no sender is left
Disconnect ==
    /\ running
    /\ ~alive
    /\ connected
    /\ connected' = FALSE
    /\ toggled' = <<>>
    /\ UNCHANGED <<repoVars, presenterVars, windowVars, alive, timer, late,
                   viewVars>>

NextLife ==
    \/ Poll
    \/ \E event \in BurstEvents : Send(MaxBurst, event)
    \/ \E blob \in Blobs \cup {ZeroOid} : WriteFile("a.txt", blob)
    \/ DropPresenter
    \/ Disconnect

SpecLife == Init /\ [][NextLife]_vars

SpecLifeFair == SpecLife /\ WF_vars(Poll)

(***************************************************************************)
(* Properties.  A step is told from another by the action that takes it:   *)
(* Recompute is a step of a callback that ran update_commit_history.       *)
(***************************************************************************)
Recompute ==
    \/ \E name \in LocalSet : SetBranch(name)
    \/ /\ rx # <<>>
       /\ Poll
       /\ EventPath(Head(rx)) # <<>>
       /\ IsRelevant(EventPath(Head(rx))[1], branch)

\* d reaches a along parent links
RECURSIVE Reaches(_, _, _)
Reaches(db, d, a) == d = a \/ \E q \in Range(db[d].parents) : Reaches(db, q, a)

\* the tips the walk starts from: the selected branch, HEAD, every local
\* branch, every remote-tracking ref
SeedTips(R, br) ==
    {c \in DOMAIN R.odb :
        \/ c = R.heads[br]
        \/ c = R.heads[R.HEAD]
        \/ \E n \in LocalSet : c = R.heads[n]
        \/ \E n \in RemoteSet : c = R.remotes[n]}

ReachableFromSeeds(R, br) ==
    {c \in DOMAIN R.odb : \E s \in SeedTips(R, br) : Reaches(R.odb, s, c)}

Occurrences(h, c) == Cardinality({i \in 1..Len(h) : ~is_sentinel(h[i]) /\ h[i].id = c})

ExactlyOnce(h, R, br) ==
    /\ \A c \in ReachableFromSeeds(R, br) : Occurrences(h, c) = 1
    /\ \A c \in DOMAIN R.odb : Occurrences(h, c) <= 1

\* C1: the history a recompute produces holds every commit reachable from
\* the seed set (selected branch, HEAD, every local branch, every
\* remote-tracking ref) exactly once, and no commit id twice
C1_HistoryHoldsReachableOnce ==
    [][(Recompute /\ running') => ExactlyOnce(commits', Repo', branch')]_vars

\* a recomputed history of a repository with a merge, whose root is reached
\* along both parents, and with a remote-tracking ref
C1_Witness ==
    /\ running
    /\ Len(commits) = MaxCommits
    /\ \E c \in DOMAIN odb : Len(odb[c].parents) = 2
    /\ remotes[OriginMaster] # ZeroOid
    /\ heads[Dev] # heads[Master]
    /\ ExactlyOnce(commits, Repo, branch)

HasSentinel(h) == \E i \in 1..Len(h) : is_sentinel(h[i])

NonIgnoredEntries(R) ==
    {i \in 1..Len(Statuses(R)) : Statuses(R)[i].wt # "Ignored"}

\* C2: after a recompute the sentinel is in the history iff the repository
\* has, at that moment, a status entry that is not ignored
C2_SentinelIffUncommitted ==
    [][(Recompute /\ running')
        => (HasSentinel(commits') <=> NonIgnoredEntries(Repo') # {})]_vars

\* a history with the sentinel, recomputed while the ignored file exists
\* beside a change that is not ignored
C2_Witness ==
    /\ running
    /\ HasSentinel(commits)
    /\ workdir["tmp.log"] # ZeroOid
    /\ NonIgnoredEntries(Repo) # {}
    /\ Cardinality(NonIgnoredEntries(Repo)) < Len(Statuses(Repo))

\* C3: of the two lists a sentinel diff publishes, no content id occurs
\* both in the staged list and in the unstaged list
C3_StagedUnstagedDisjoint ==
    panes = "status" =>
        \A i \in 1..Len(deltas[1]) : \A j \in 1..Len(deltas[2]) :
            deltas[1][i].id # deltas[2][j].id

\* a published sentinel diff from which a staged file was filtered out of
\* the unstaged list while another file stayed in it
C3_Witness ==
    /\ running
    /\ panes = "status"
    /\ deltas = SentinelDeltas(Repo)
    /\ Len(deltas[1]) > 0
    /\ Len(deltas[2]) > 0
    /\ Len(deltas[2]) <
         Len(FindSimilar(DiffTreeToWorkdirWithIndex(HeadTree(Repo), index, workdir)))

UnstagedRow(idx) == panes = "status" /\ idx < Len(deltas[2])
StagedRow(idx) == panes = "status" /\ idx < Len(deltas[1])

\* C4: toggling a valid row of the unstaged list leaves the index entry of
\* the path shown at that row with the working-tree content of that path,
\* and every other index entry as it was
C4_ToggleUnstagedStagesRow ==
    [][\A idx \in 0..MaxRow :
        (UnstagedRow(idx) /\ ToggleUnstaged(idx))
            => index' = [index EXCEPT ![deltas[2][idx + 1].path] =
                                        workdir[deltas[2][idx + 1].path]]]_vars

\* C5: toggling a valid row of the staged list of a sentinel diff resets
\* the path of that row in the index to HEAD's version, and the recomputed
\* staged list no longer shows that path
C5_ToggleStagedResetsRow ==
    [][\A idx \in 0..MaxRow :
        (StagedRow(idx) /\ ToggleStaged(idx))
            => /\ index' = [index EXCEPT ![deltas[1][idx + 1].path] =
                                           HeadTree(Repo)[deltas[1][idx + 1].path]]
               /\ \A j \in 1..Len(deltas'[1]) :
                     deltas'[1][j].path # deltas[1][idx + 1].path]_vars

\* the path the last toggle staged
StagedPath == toggled[1].before[2][toggled[1].idx + 1].path

\* the last callback staged a path that had no staged change, from lists
\* that were the sentinel diff of the repository at that moment
JustStaged ==
    /\ running
    /\ panes = "status"
    /\ toggled # <<>>
    /\ toggled[1].list = "unstaged"
    /\ toggled[1].idx < Len(toggled[1].before[2])
    /\ toggled[1].before =
         SentinelDeltas([Repo EXCEPT !.index[StagedPath] = HeadTree(Repo)[StagedPath]])

\* C6: staging a path and unstaging it at once, nothing else changing the
\* repository in between, brings back the lists shown before the staging,
\* the same records in the same order
C6_StageUnstageRoundTrip ==
    [][\A j \in 0..MaxRow :
        (JustStaged /\ StagedRow(j) /\ deltas[1][j + 1].path = StagedPath
            /\ ToggleStaged(j))
            => deltas' = toggled[1].before]_vars

\* C7: a completed stage or unstage of a valid row is followed by a
\* recomputation of the sentinel diff from the index as written: the lists
\* shown afterwards are the sentinel diff of the repository
C7_ToggleThenRecompute ==
    [][\A idx \in 0..MaxRow :
        (/\ \/ StagedRow(idx) /\ ToggleStaged(idx)
            \/ UnstagedRow(idx) /\ ToggleUnstaged(idx)
         /\ running')
            => (panes' = "status" /\ deltas' = SentinelDeltas(Repo'))]_vars

\* C8: a toggle by a row index that is no row of the snapshot is rejected:
\* the index is unchanged and the process keeps running
C8_StaleRowRejected ==
    [][\A idx \in 0..MaxRow :
        (/\ \/ ~StagedRow(idx) /\ ToggleStaged(idx)
            \/ ~UnstagedRow(idx) /\ ToggleUnstaged(idx))
            => (running' /\ index' = index)]_vars

\* C9: when adding the path of a valid row to the index fails, here
\* because the file was removed meanwhile, the index is left as it was and
\* the process keeps running
C9_AddFailureSurfaced ==
    [][\A idx \in 0..MaxRow :
        (/\ UnstagedRow(idx)
         /\ workdir[deltas[2][idx + 1].path] = ZeroOid
         /\ ToggleUnstaged(idx))
            => (running' /\ index' = index)]_vars

UnderGitDir(path) == Len(path) > 2 /\ path[1] = Root /\ path[2] = ".git"
IsIndexFile(path) == path = <<Root, ".git", "index">>
IsBranchRef(path, br) == path = <<Root, ".git", "refs", "heads">> \o br

\* C10: an event for a path under .git that is neither the index file nor
\* the ref file of the selected branch is dropped: the history and the
\* diff stay as they were
C10_MetadataEventDropped ==
    [][(/\ rx # <<>>
        /\ Poll
        /\ EventPath(Head(rx)) # <<>>
        /\ UnderGitDir(EventPath(Head(rx))[1])
        /\ ~IsIndexFile(EventPath(Head(rx))[1])
        /\ ~IsBranchRef(EventPath(Head(rx))[1], branch))
        => UNCHANGED <<commits, cursor, deltas, panes>>]_vars

\* the path of the event the poll is about to handle names a path
PollOfPath == rx # <<>> /\ Poll /\ EventPath(Head(rx)) # <<>>

NoGitComponent(path) == \A i \in 1..Len(path) : path[i] # ".git"

\* relevant as the specification has it: the index file, the ref file of
\* the selected branch, or a path outside .git
RelevantPath(path, br) ==
    IsIndexFile(path) \/ IsBranchRef(path, br) \/ NoGitComponent(path)

\* what FileStatusView shows: the diff of the record at row r of history h
ShowsRow(h, R, r, shownPanes, shownDeltas) ==
    IF is_sentinel(h[r + 1])
    THEN shownPanes = "status" /\ shownDeltas = SentinelDeltas(R)
    ELSE /\ shownPanes = "commit"
         /\ shownDeltas = <<CommitDeltas(R, h[r + 1].id), <<>>>>

\* C11: handling a relevant event recomputes the history for the branch
\* selected at that time and, if a row is selected then, derives the diff
\* of that row again
C11_RelevantEventRecomputes ==
    [][(/\ PollOfPath
        /\ RelevantPath(EventPath(Head(rx))[1], branch)
        /\ running')
        => /\ commits' = ComputeHistory(Repo, branch)
           /\ cursor' # <<>> =>
                 ShowsRow(commits', Repo, cursor'[1], panes', deltas')]_vars

\* a recomputed history of the branch selected after the start, with the
\* sentinel and a later commit, and a row selected whose diff is shown
C11_Witness ==
    /\ running
    /\ branch = Master
    /\ rx = <<>>
    /\ HasSentinel(commits)
    /\ Len(commits) >= 3
    /\ commits = ComputeHistory(Repo, branch)
    /\ cursor # <<>>
    /\ ShowsRow(commits, Repo, cursor[1], panes, deltas)

\* the view shows commit id: the cursor is on its row and its diff is shown
ShowingCommit(id) ==
    /\ running
    /\ cursor # <<>>
    /\ cursor[1] < Len(commits)
    /\ ~is_sentinel(commits[cursor[1] + 1])
    /\ commits[cursor[1] + 1].id = id
    /\ panes = "commit"
    /\ deltas = <<CommitDeltas(Repo, id), <<>>>>

InHistory(h, id) == \E i \in 1..Len(h) : ~is_sentinel(h[i]) /\ h[i].id = id

\* C12: a relevant event handled while commit id is shown, id being in the
\* recomputed history, leaves the selection on id and the diff of id shown
C12_SelectionFollowsCommit ==
    [][\A id \in DOMAIN odb :
        (/\ ShowingCommit(id)
         /\ PollOfPath
         /\ RelevantPath(EventPath(Head(rx))[1], branch)
         /\ running'
         /\ InHistory(commits', id))
        => /\ cursor' # <<>>
           /\ commits'[cursor'[1] + 1].id = id
           /\ panes' = "commit"
           /\ deltas' = <<CommitDeltas(Repo, id), <<>>>>]_vars

\* C13: a relevant event handled while commit id is shown, id being gone
\* from the recomputed history, puts the selection on row 0 and shows the
\* diff of row 0
C13_GoneCommitFallsBackToRowZero ==
    [][\A id \in DOMAIN odb :
        (/\ ShowingCommit(id)
         /\ PollOfPath
         /\ RelevantPath(EventPath(Head(rx))[1], branch)
         /\ running'
         /\ ~InHistory(commits', id))
        => /\ cursor' = <<0>>
           /\ ShowsRow(commits', Repo, 0, panes', deltas')]_vars

\* C14: selecting a row looks its record up in the last computed history;
\* a sentinel gives the staged and unstaged diff, any other record the diff
\* of its commit, and nothing else changes what is shown
C14_SelectRowTakesOnePath ==
    [][\A row \in 0..MaxCommits :
        CursorChanged(row)
        => /\ running'
           /\ commits' = commits
           /\ cursor' = <<row>>
           /\ ShowsRow(commits, Repo, row, panes', deltas')]_vars

\* a commit row selected below the sentinel, and its diff shown
C14_Witness ==
    /\ running
    /\ HasSentinel(commits)
    /\ cursor # <<>>
    /\ cursor[1] > 0
    /\ cursor[1] < Len(commits)
    /\ panes = "commit"
    /\ deltas = <<CommitDeltas(Repo, commits[cursor[1] + 1].id), <<>>>>

AllRelevant(q, br) ==
    \A i \in 1..Len(q) :
        EventPath(q[i]) # <<>> /\ RelevantPath(EventPath(q[i])[1], br)

\* C15: a recompute absorbs the relevant events that wait in the channel:
\* of several that were queued, none is left to cause a recompute each
C15_QueuedEventsAbsorbed ==
    [][(/\ Len(rx) >= 2
        /\ AllRelevant(rx, branch)
        /\ Poll)
        => rx' = <<>>]_vars

\* C16: what the view shows after a callback that recomputes is the result
\* of that callback and of no earlier one: a watcher event leaves the
\* history of the repository and the diff of the selected row, a row
\* selection the diff of that row, a staging the sentinel diff
C16_LastRecomputeIsShown ==
    [][/\ (Recompute /\ running')
            => /\ commits' = ComputeHistory(Repo', branch')
               /\ cursor' # <<>> =>
                     ShowsRow(commits', Repo', cursor'[1], panes', deltas')
       /\ \A row \in 0..MaxRow :
            CursorChanged(row)
            => /\ commits' = commits
               /\ ShowsRow(commits, Repo, row, panes', deltas')
       /\ \A idx \in 0..MaxRow :
            (UnstagedRow(idx) /\ ToggleUnstaged(idx) /\ running')
            => /\ commits' = commits
               /\ panes' = "status"
               /\ deltas' = SentinelDeltas(Repo')]_vars

\* the commit row selected under the sentinel and its diff shown, with a
\* change staged before
C16_Witness ==
    /\ running
    /\ rx = <<>>
    /\ commits = ComputeHistory(Repo, branch)
    /\ HasSentinel(commits)
    /\ cursor = <<1>>
    /\ ShowsRow(commits, Repo, 1, panes, deltas)
    /\ index # HeadTree(Repo)

\* C17: the poll never waits: with an empty channel it can run, and then
\* changes nothing; a step of the watcher only adds an event to the channel
C17_PollNeverBlocks ==
    /\ []((running /\ rx = <<>>) => ENABLED Poll)
    /\ [][Len(rx') > Len(rx)
            => UNCHANGED <<repoVars, branch, commits, cursor, deltas, panes,
                           running>>]_vars

\* the channel drained by the poll after events were handled, the poll
\* still to run
C17_Witness ==
    /\ running
    /\ watch = "watching"
    /\ rx = <<>>
    /\ HasSentinel(commits)
    /\ ENABLED Poll

\* C18: a rename is handled as an event of its destination path, and a
\* rescan leaves the history, the selection and the diff as they were
C18_EventNormalised ==
    [][(rx # <<>> /\ Poll)
        => /\ Head(rx).kind = "Rescan"
                => UNCHANGED <<commits, cursor, deltas, panes, running>>
           /\ Head(rx).kind = "Rename"
                => P' = on_path_change_event(
                            P, Repo, branch, PathEvent("Write", Head(rx).path[1]))]_vars

\* a history recomputed with the sentinel while a row is selected, the
\* channel empty
C18_Witness ==
    /\ running
    /\ rx = <<>>
    /\ watch = "watching"
    /\ HasSentinel(commits)
    /\ commits = ComputeHistory(Repo, branch)
    /\ cursor = <<0>>
    /\ panes = "status"

\* C19: when the watch cannot be established, the process keeps running
\* and the first history is there
C19_WatchFailureNotFatal ==
    watch # "watching" => (running /\ commits # <<>>)

\* C20: a recompute is never aborted by a ref that does not resolve: the
\* process keeps running and every commit reachable from the refs that do
\* resolve is in the history
C20_UnresolvedRefSkipped ==
    [][(PollOfPath /\ RelevantPath(EventPath(Head(rx))[1], branch))
        => /\ running'
           /\ \A c \in ReachableFromSeeds(Repo, branch) :
                 Occurrences(commits', c) = 1]_vars

\* the names of the local branches whose tip is commit c
LocalTipNames(R, c) == {n \in LocalSet : R.heads[n] = c}

\* C24: in a recomputed history the names attached to a commit record are
\* exactly the names of the local branches whose tip is that commit; a
\* remote-tracking ref adds no name
C24_AnnotationIsLocalTips ==
    [][(/\ PollOfPath
        /\ RelevantPath(EventPath(Head(rx))[1], branch)
        /\ running')
        => \A i \in 1..Len(commits') :
              ~is_sentinel(commits'[i])
              => Range(commits'[i].branch_heads)
                    = LocalTipNames(Repo, commits'[i].id)]_vars

\* the records of history h that are commits, as ids in their order
WalkIds(h) ==
    LET cs == SelectSeq(h, LAMBDA info : ~is_sentinel(info))
    IN  [i \in 1..Len(cs) |-> cs[i].id]

\* no commit of walk w stands before one of its children
ChildrenFirst(db, w) ==
    \A i, j \in 1..Len(w) : i < j => w[i] \notin ParentSet(db, w[j])

Unrelated(db, a, b) == ~Reaches(db, a, b) /\ ~Reaches(db, b, a)

\* every child of w[j] in the walk stands before position i
ReadyAt(db, w, i, j) ==
    \A k \in 1..Len(w) : w[j] \in ParentSet(db, w[k]) => k < i

\* C25 as claimed: in a recomputed history no commit stands before one of
\* its children, and of two commits not ordered by ancestry the one with
\* the later commit time stands first
C25_NewestUnrelatedFirst ==
    [][(/\ PollOfPath
        /\ RelevantPath(EventPath(Head(rx))[1], branch)
        /\ running')
        => LET w == WalkIds(commits')
           IN  /\ ChildrenFirst(odb, w)
               /\ \A i, j \in 1..Len(w) :
                     (i < j /\ Unrelated(odb, w[i], w[j]))
                     => odb[w[i]].time >= odb[w[j]].time]_vars

\* C25 as amended: in a recomputed history no commit stands before one of
\* its children, and a commit stands before every commit with a later
\* commit time only if that one still waits for one of its children
C25_NewestReadyFirst ==
    [][(/\ PollOfPath
        /\ RelevantPath(EventPath(Head(rx))[1], branch)
        /\ running')
        => LET w == WalkIds(commits')
           IN  /\ ChildrenFirst(odb, w)
               /\ \A i, j \in 1..Len(w) :
                     (i < j /\ ReadyAt(odb, w, i, j))
                     => odb[w[i]].time >= odb[w[j]].time]_vars

\* a recomputed history of all the commits of a graph with two tips in
\* which a child is older than its parent
C25_Witness ==
    /\ running
    /\ rx = <<>>
    /\ commits = ComputeHistory(Repo, branch)
    /\ Len(commits) = MaxWalk
    /\ heads[Dev] \notin {1, MaxWalk}
    /\ Unrelated(odb, heads[Dev], heads[Master])
    /\ \E c \in DOMAIN odb : \E q \in ParentSet(odb, c) : odb[c].time < odb[q].time

\* the only uncommitted change of R is the untracked, non-ignored file f
OnlyUntracked(R, f) ==
    /\ f \notin IgnoredPaths
    /\ R.index = HeadTree(R)
    /\ R.index[f] = ZeroOid
    /\ R.workdir[f] # ZeroOid
    /\ \A p \in Paths \ {f} : R.workdir[p] = R.index[p]

IsChain(db) == \A c \in 2..Len(db) : db[c].parents = <<c - 1>>

\* with one untracked file as the only change: a recompute gives the
\* sentinel, then the commits (the chain from its last commit down), and
\* selecting the sentinel gives no staged record and one unstaged record,
\* of that file and of the given kind
UntrackedOnlyStep(kind) ==
    \A f \in Paths :
        OnlyUntracked(Repo, f)
        => /\ (/\ PollOfPath
               /\ RelevantPath(EventPath(Head(rx))[1], branch)
               /\ running')
              => /\ is_sentinel(commits'[1])
                 /\ \A i \in 2..Len(commits') : ~is_sentinel(commits'[i])
                 /\ IsChain(odb)
                       => WalkIds(commits') = [i \in 1..Len(odb) |-> Len(odb) + 1 - i]
           /\ (/\ commits # <<>>
               /\ is_sentinel(commits[1])
               /\ CursorChanged(0))
              => /\ deltas'[1] = <<>>
                 /\ Len(deltas'[2]) = 1
                 /\ deltas'[2][1].path = f
                 /\ deltas'[2][1].delta = kind

FirstParentTree(db, c) ==
    IF db[c].parents = <<>> THEN EmptyTree ELSE db[db[c].parents[1]].tree

\* items are the records of the change from tree T1 to tree T2: one record
\* per changed path, with the content of its new side, a removed path being
\* left out only as the source of a rename
DescribesChange(items, T1, T2) ==
    /\ \A i, j \in 1..Len(items) : items[i].path = items[j].path => i = j
    /\ \A i \in 1..Len(items) :
          LET x == items[i]
          IN  /\ T1[x.path] # T2[x.path]
              /\ x.id = T2[x.path]
              /\ x.delta \in {"Added", "Deleted", "Modified", "Renamed"}
              /\ x.delta = "Added" => T1[x.path] = ZeroOid
              /\ x.delta = "Deleted" => T2[x.path] = ZeroOid
              /\ x.delta = "Modified" => T1[x.path] # ZeroOid /\ T2[x.path] # ZeroOid
              /\ x.delta = "Renamed"
                    => /\ T1[x.path] = ZeroOid
                       /\ \E q \in Paths : T1[q] = T2[x.path] /\ T2[q] = ZeroOid
    /\ \A q \in Paths :
          T1[q] # T2[q]
          => \/ \E i \in 1..Len(items) : items[i].path = q
             \/ /\ T2[q] = ZeroOid
                /\ \E i \in 1..Len(items) :
                      items[i].delta = "Renamed" /\ items[i].id = T1[q]

\* C27: selecting a commit row shows, as the first list, the change from
\* the tree of the commit's first parent (the empty tree for a root) to the
\* commit's tree and, as the second list, nothing, whatever was shown
C27_CommitDiffAgainstFirstParent ==
    [][\A row \in 0..MaxCommits :
        (/\ row < Len(commits)
         /\ ~is_sentinel(commits[row + 1])
         /\ CursorChanged(row))
        => /\ panes' = "commit"
           /\ deltas'[2] = <<>>
           /\ DescribesChange(deltas'[1],
                              FirstParentTree(odb, commits[row + 1].id),
                              odb[commits[row + 1].id].tree)]_vars

\* a merge whose parents have different trees is shown, with a record
C27_Witness ==
    /\ running
    /\ cursor # <<>>
    /\ cursor[1] < Len(commits)
    /\ ~is_sentinel(commits[cursor[1] + 1])
    /\ LET c == commits[cursor[1] + 1].id
       IN  /\ Len(odb[c].parents) = 2
           /\ odb[odb[c].parents[1]].tree # odb[odb[c].parents[2]].tree
    /\ panes = "commit"
    /\ deltas[1] # <<>>
    /\ deltas[2] = <<>>

C29_SelectionIdempotent ==
    [][\A row \in 0..MaxCommits :
        CursorChanged(row) => on_item_selected(P', Repo', row) = P']_vars

\* the sentinel selected with a staged and an unstaged record shown
C29_Witness ==
    /\ running
    /\ cursor = <<0>>
    /\ commits # <<>>
    /\ is_sentinel(commits[1])
    /\ panes = "status"
    /\ deltas[2] # <<>>
    /\ deltas = SentinelDeltas(Repo)

C21_FailedOpenChangesNothing ==
    [][\A path \in Dirs :
        (/\ ~Opens(path)
         /\ MainSelectRepo(path) \/ InitSelectRepo(path))
        => /\ error' = OpenError(path)
           /\ running'
           /\ UNCHANGED <<opened, repoVars, disk, branches, branch, commits,
                          config>>]_vars

\* the main window has said that a directory could not be opened, a
\* repository with a history being open and persisted
C21_Witness ==
    /\ running
    /\ error = OpenError(NotARepo)
    /\ opened = OtherRoot
    /\ config = OtherRoot
    /\ Len(commits) >= 2
    /\ cursor # <<>>

C30_OpenNeverCrashes ==
    [][\A path \in Dirs :
        (MainSelectRepo(path) \/ InitSelectRepo(path)) => running']_vars

\* C39: the history computed when a branch is selected is the one the
\* branch selected before would give: the same commits in the same order,
\* whichever local branch is selected
C39_HistoryIndependentOfBranch ==
    [][\A name \in LocalSet :
        (/\ heads[branch] # ZeroOid
         /\ SetBranch(name)
         /\ running')
        => /\ commits' = ComputeHistory(Repo, branch)
           /\ \A other \in LocalSet :
                 heads[other] # ZeroOid
                 => WalkIds(commits') = RevWalk(Repo, other)]_vars

\* master is selected, dev and master being on different commits, neither
\* an ancestor of the other, and the history holds both
C39_Witness ==
    /\ running
    /\ branch = Master
    /\ heads[Dev] # ZeroOid
    /\ heads[Master] # ZeroOid
    /\ ~IsAncestor(odb, heads[Dev], heads[Master])
    /\ ~IsAncestor(odb, heads[Master], heads[Dev])
    /\ commits = ComputeHistory(Repo, Dev)
    /\ Len(commits) >= 3

\* the records of the working-directory diff of R, before the staged ones
\* are taken out
WorkdirItems(R) ==
    MapItems(FindSimilar(DiffTreeToWorkdirWithIndex(HeadTree(R), R.index, R.workdir)),
             FALSE)

ItemPaths(items) == {items[i].path : i \in 1..Len(items)}

\* C36: when the sentinel is selected, every record of the working-directory
\* diff whose path is not a path of the staged list is in the unstaged list
C36_UnstagedKeptUnlessPathStaged ==
    [][(/\ commits # <<>>
        /\ is_sentinel(commits[1])
        /\ CursorChanged(0)
        /\ running')
        => \A i \in 1..Len(WorkdirItems(Repo)) :
              WorkdirItems(Repo)[i].path \notin ItemPaths(deltas'[1])
              => WorkdirItems(Repo)[i].path \in ItemPaths(deltas'[2])]_vars

\* C34: the history holds the sentinel at most once and at row 0 only, the
\* record classified as the sentinel is the synthetic one, no record of a
\* commit is classified so, and the row of a commit is shown as a commit
C34_SentinelOnlySynthetic ==
    /\ \A i \in 1..Len(commits) :
          is_sentinel(commits[i]) => i = 1 /\ commits[i] = uncommitted_sentinel
    /\ \A c \in DOMAIN odb : ~is_sentinel(CommitInfo(Repo, c))
    /\ (running /\ cursor # <<>> /\ cursor[1] < Len(commits) /\ panes = "status")
          => cursor[1] = 0 /\ commits[1].id = ZeroOid

\* the sentinel stands above a commit that carries the marker text, whose
\* row is selected and shown as a commit
C34_Witness ==
    /\ running
    /\ Len(commits) >= 3
    /\ commits[1] = uncommitted_sentinel
    /\ commits[2].id # ZeroOid
    /\ commits[2].summary = UNCOMMITTED_STR
    /\ cursor = <<1>>
    /\ panes = "commit"

IsPrefix(s, t) == Len(s) <= Len(t) /\ s = SubSeq(t, 1, Len(s))

\* C35: for every commit summary, of any length and of one-byte or multi-byte
\* characters, the summary of the record is computed without failing and is
\* a prefix of the commit's summary of at most 80 characters
C35_SummaryIsShortPrefix ==
    [][\A c \in CommitMessages :
          Summarise(c) /\ c.utf8
              => /\ running'
                 /\ summ' # <<>>
                 /\ IsPrefix(summ'[1].summary, c.chars)
                 /\ Len(summ'[1].summary) <= SummaryLimit]_vars

\* the selected rows are all the rows from the first to the last of them
Contiguous(rows) == Range(rows) = rows[1]..rows[Len(rows)]

AllLinesLabel ==
    [Committed |-> "Revert All Lines", Staged |-> "Unstage All Lines",
     Working |-> "Stage All Lines"]

SelectedLinesLabel ==
    [Committed |-> "Revert Selected Lines", Staged |-> "Unstage Selected Lines",
     Working |-> "Stage Selected Lines"]

ButtonFollowsSelection ==
    chunk # <<>> =>
        LET c == chunk[1]
        IN  /\ c.button.sensitive = ~(c.rows # <<>> /\ ~Contiguous(c.rows))
            /\ c.rows = <<>> => c.button.label = AllLinesLabel[c.context]
            /\ c.rows # <<>> /\ Contiguous(c.rows)
                   => c.button.label = SelectedLinesLabel[c.context]

\* C40: in every diff context and for every ascending selection of rows, the
\* primary button is disabled iff the selection is non-empty and not
\* contiguous; an empty selection offers the all-lines action of the context
\* and a contiguous one the selected-lines action; a new hunk view starts in
\* the all-lines state
C40_ButtonFollowsSelection ==
    /\ []ButtonFollowsSelection
    /\ [][\A context \in DiffContext :
              NewChunk(context)
                  => /\ chunk'[1].rows = <<>>
                     /\ chunk'[1].button.sensitive
                     /\ chunk'[1].button.label = AllLinesLabel[context]]_vars

\* rows 1, 2 and 4 of a staged hunk are selected: the button is disabled
C40_Witness ==
    /\ chunk # <<>>
    /\ chunk[1].context = "Staged"
    /\ chunk[1].rows = <<1, 2, 4>>
    /\ ~chunk[1].button.sensitive

\* every hunk header of the diff is UTF-8
HeadersDecode(diff) ==
    \A n \in 1..Len(diff) : \A h \in 1..Len(diff[n].hunks) :
        "bad" \notin Range(diff[n].hunks[h].header)

C32_UndecodableTextShownAsUnknown ==
    [][\A diff \in Diffs, context \in DiffContext :
          /\ SetDiff(diff, context)
          /\ \A n \in 1..Len(diff) : diff[n].kind # "binary"
          => /\ running'
             /\ Len(diffview'.files) = Len(diff)
             /\ \A n \in 1..Len(diff) :
                    /\ Len(diffview'.files[n].children) = Len(diff[n].hunks)
                    /\ \A h \in 1..Len(diff[n].hunks) :
                         LET given == diff[n].hunks[h].lines
                             shown == diffview'.files[n].children[h].lines
                         IN  /\ Len(shown) = Len(given)
                             /\ \A i \in 1..Len(given) :
                                    ("bad" \in Range(given[i]))
                                        <=> (shown[i] = <<"<unknown>">>)]_vars

\* C33: when a diff is set, no hunk or line of any of its files is computed:
\* the file views hold no chunk view until a file's diff is requested
C33_ContentComputedOnRequest ==
    [][\A diff \in Diffs, context \in DiffContext :
          SetDiff(diff, context) /\ running'
              => \A n \in 1..Len(diffview'.files) :
                     diffview'.files[n].children = <<>>]_vars

shownVars == <<commits, cursor, deltas, panes>>

\* on_path_change_event is not invoked on a dropped presenter, and once the
\* callback has stopped it stays stopped and nothing is recomputed
NoHandlerAfterDrop ==
    /\ Poll /\ ~alive => UNCHANGED shownVars
    /\ ~timer => ~timer' /\ UNCHANGED shownVars

\* C38 as stated: a tick of the poll callback after the channel was
\* disconnected or the presenter dropped does not reschedule the callback;
\* on_path_change_event is never invoked on a dropped presenter, and after
\* the callback has stopped no event recomputes anything
C38_StopsAsSoonAsDropped ==
    [][/\ Poll /\ (~connected \/ ~alive) => ~timer'
       /\ NoHandlerAfterDrop]_vars

\* C38, amended: the callback stops at exactly the ticks that find the
\* channel disconnected and empty or that receive an event after the
\* presenter was dropped (a tick that finds the channel empty and connected
\* is rescheduled); on_path_change_event is never invoked on a dropped
\* presenter, and after the callback has stopped no event recomputes
\* anything
C38_StopsOnDisconnectOrEventAfterDrop ==
    [][/\ Poll => (~timer' <=> \/ rx = <<>> /\ ~connected
                               \/ rx # <<>> /\ ~alive)
       /\ NoHandlerAfterDrop]_vars

\* the presenter was dropped with a change of the working directory not yet
\* shown; a tick found the channel empty and was rescheduled, a later tick
\* received an event and stopped the callback: the history is as it was
C38_Witness ==
    /\ ~alive
    /\ ~timer
    /\ connected
    /\ late = MaxLate
    /\ rx # <<>>
    /\ workdir # index
    /\ ~is_sentinel(commits[1])

\* the handler ran on the event: what it computes is what is shown
HandledAs(event) ==
    LET p == on_path_change_event(P, Repo, branch, event)
    IN  /\ commits' = p.commits
        /\ cursor' = p.cursor
        /\ deltas' = p.deltas
        /\ panes' = p.panes

\* the channel changes by an event entering at its end, or by a tick taking
\* its oldest event, which the handler of a living presenter handles; what
\* is shown changes only when an event is taken
QueueInOrder ==
    /\ rx' # rx =>
          \/ /\ \E event \in BurstEvents : rx' = Append(rx, event)
             /\ UNCHANGED shownVars
          \/ /\ rx # <<>>
             /\ rx' = Tail(rx)
             /\ alive => HandledAs(Head(rx))
    /\ shownVars' # shownVars => rx # <<>> /\ rx' = Tail(rx)

\* C37: while the presenter is alive and the timer fires, every event that
\* entered the channel is taken and handled by on_path_change_event, in the
\* order of entry and one for each tick, none lost and none handled twice:
\* the channel is a queue whose oldest event alone is taken and handled, and
\* either it is empty again and again or a tick takes an event again and
\* again, so that every event of the bounded channel reaches its head and
\* is taken
C37_EveryEventHandledInOrder ==
    /\ [][QueueInOrder]_vars
    /\ \/ []<>(rx = <<>>)
       \/ []<><<rx # <<>> /\ rx' = Tail(rx)>>_vars
       \/ <>(~alive \/ ~running)

\* a write of the working directory was handled, and the event that entered
\* the channel behind it waits for the next tick
C37_Witness ==
    /\ alive
    /\ timer
    /\ rx = <<PathEvent("Create", GitObject)>>
    /\ workdir # index
    /\ is_sentinel(commits[1])

====
